---- MODULE Spec2Model ----
(***************************************************************************)
(* Model of streamlit_app.py: the Z-Sigma control map page.  Streamlit     *)
(* reruns the whole script on every widget change, so every action below   *)
(* changes one widget and then recomputes the whole page.                  *)
(*                                                                         *)
(* Numbers.  The batch section computes in float64 (pandas / numpy), and   *)
(* so does the model: a finite float is sign * (hi * 2^28 + lo) * 2^e with *)
(* a 53-bit significand (2^52 <= hi * 2^28 + lo < 2^53, or 0 for a zero),  *)
(* and every sum, difference, product and quotient is rounded to nearest,  *)
(* ties to even, as IEEE 754 binary64 does.  NaN, +inf and -inf are        *)
(* separate kinds.  The cells of the pasted CSV are small integers, so no  *)
(* result leaves the range of normal binary64 exponents.                   *)
(***************************************************************************)
EXTENDS Integers, Sequences, FiniteSets

(***************************************************************************)
(* Bounds of the explored inputs.                                          *)
(***************************************************************************)
MaxLen == 3
MaxHdrRows == 2
MaxH == 2
MaxP == 1
MaxELM == 1

(***************************************************************************)
(* Program constants.                                                      *)
(***************************************************************************)
SliderMax == 100
Z_default == 85
Sigma_default == 30

(***************************************************************************)
(* binary64.  Significands are handled in words of 28 bits and, where      *)
(* words are multiplied, in limbs of 14 bits.                              *)
(***************************************************************************)
Word == 2^28
Limb == 2^14

Finite(s, e, hi, lo) == [k |-> "fin", s |-> s, e |-> e, hi |-> hi, lo |-> lo]
Zero(sign) == Finite(sign, 0, 0, 0)
Inf(sign) == [k |-> "inf", s |-> sign, e |-> 0, hi |-> 0, lo |-> 0]
NaN == [k |-> "nan", s |-> 1, e |-> 0, hi |-> 0, lo |-> 0]
PInf == Inf(1)
NInf == Inf(-1)
IsNaN(x) == x.k = "nan"
IsFinite(x) == x.k = "fin"
IsZero(x) == x.k = "fin" /\ x.hi = 0 /\ x.lo = 0
Abs(k) == IF k < 0 THEN -k ELSE k
Min(a, b) == IF a < b THEN a ELSE b

\* the sticky bit: a discarded nonzero remainder makes the last bit odd
Jam(l, lost) == IF lost /\ l % 2 = 0 THEN l + 1 ELSE l

\* round to nearest, ties to even: r is the three bits below the significand
RoundUp(s, e, hi, lo) ==
    IF lo + 1 < Word THEN Finite(s, e, hi, lo + 1)
    ELSE IF hi + 1 < 2^25 THEN Finite(s, e, hi + 1, 0)
    ELSE Finite(s, e + 1, 2^24, 0)
Nearest(s, e, hi, lo, r) ==
    IF r > 4 \/ (r = 4 /\ lo % 2 = 1) THEN RoundUp(s, e, hi, lo)
    ELSE Finite(s, e, hi, lo)
\* the float nearest to s * (h * 2^28 + l) * 2^e, for 2^55 <= h * 2^28 + l < 2^56
RoundPack(s, e, h, l) ==
    Nearest(s, e + 3, h \div 8, (l \div 8) + (h % 8) * 2^25, l % 8)

\* the float nearest to s * (h * 2^28 + l) * 2^e, for 0 < h * 2^28 + l < 2^56
RECURSIVE Normalize(_, _, _, _)
Normalize(s, e, h, l) ==
    IF h >= 2^27 THEN RoundPack(s, e, h, l)
    ELSE IF h = 0 THEN Normalize(s, e - 28, l, 0)
    ELSE IF h < 2^13 THEN Normalize(s, e - 14, h * 2^14 + (l \div 2^14), (l % 2^14) * 2^14)
    ELSE IF h < 2^23 THEN Normalize(s, e - 4, h * 16 + (l \div 2^24), (l % 2^24) * 16)
    ELSE Normalize(s, e - 1, h * 2 + (l \div 2^27), (l % 2^27) * 2)

\* an int64 cell or an integer literal as a float
Num(a) == IF a = 0 THEN Zero(1) ELSE Normalize(IF a > 0 THEN 1 ELSE -1, 0, 0, Abs(a))

\* the significand of x with three guard bits, as two words
XH(x) == x.hi * 8 + (x.lo \div 2^25)
XL(x) == (x.lo % 2^25) * 8
\* <<h, l>> shifted right by d bits, sticky
ShrS(h, l, d) ==
    IF d = 0 THEN <<h, l>>
    ELSE IF d >= 56 THEN <<0, IF h # 0 \/ l # 0 THEN 1 ELSE 0>>
    ELSE IF d >= 28 THEN <<0, Jam(h \div 2^(d - 28), h % 2^(d - 28) # 0 \/ l # 0)>>
    ELSE <<h \div 2^d, Jam((l \div 2^d) + (h % 2^d) * 2^(28 - d), l % 2^d # 0)>>

\* |x| < |y| for finite x, y
MagLt(x, y) ==
    IF IsZero(y) THEN FALSE
    ELSE IF IsZero(x) THEN TRUE
    ELSE IF x.e # y.e THEN x.e < y.e
    ELSE IF x.hi # y.hi THEN x.hi < y.hi
    ELSE x.lo < y.lo

RNeg(x) == IF IsNaN(x) THEN NaN ELSE [x EXCEPT !.s = -x.s]

\* the sum of two aligned significands, h possibly one bit too long
Carry(s, e, h, l) ==
    IF h >= Word
    THEN RoundPack(s, e + 1, h \div 2, Jam((l \div 2) + (h % 2) * 2^27, l % 2 # 0))
    ELSE RoundPack(s, e, h, l)
AddMag(s, e, h1, l1, h2, l2) ==
    Carry(s, e, h1 + h2 + ((l1 + l2) \div Word), (l1 + l2) % Word)
\* the difference of two aligned significands; x - x is +0
Borrow(s, e, h, l) == IF h = 0 /\ l = 0 THEN Zero(1) ELSE Normalize(s, e, h, l)
SubMag(s, e, h1, l1, h2, l2) ==
    Borrow(s, e, h1 - h2 + ((l1 - l2) \div Word), (l1 - l2) % Word)
\* b + sm for nonzero |b| >= |sm|, x the significand of sm aligned to b
AddAligned(b, sm, x) ==
    IF b.s = sm.s THEN AddMag(b.s, b.e - 3, XH(b), XL(b), x[1], x[2])
    ELSE SubMag(b.s, b.e - 3, XH(b), XL(b), x[1], x[2])
AddOrd(b, sm) == AddAligned(b, sm, ShrS(XH(sm), XL(sm), b.e - sm.e))
AddFin(x, y) ==
    IF IsZero(x) /\ IsZero(y) THEN Zero(IF x.s = y.s THEN x.s ELSE 1)
    ELSE IF IsZero(x) THEN y
    ELSE IF IsZero(y) THEN x
    ELSE IF MagLt(x, y) THEN AddOrd(y, x)
    ELSE AddOrd(x, y)
RAdd(x, y) ==
    IF IsNaN(x) \/ IsNaN(y) THEN NaN
    ELSE IF x.k = "inf" /\ y.k = "inf" THEN (IF x.s = y.s THEN x ELSE NaN)
    ELSE IF x.k = "inf" THEN x
    ELSE IF y.k = "inf" THEN y
    ELSE AddFin(x, y)
RSub(x, y) == RAdd(x, RNeg(y))

\* the four 14-bit limbs of the significand, least significant first
Limbs(x) == <<x.lo % Limb, x.lo \div Limb, x.hi % Limb, x.hi \div Limb>>
Term(a, b, j, i) == IF i + 1 - j \in 1..4 THEN a[j] * b[i + 1 - j] ELSE 0
Col(a, b, i) == Term(a, b, 1, i) + Term(a, b, 2, i) + Term(a, b, 3, i) + Term(a, b, 4, i)
\* the eight limbs of the product a * b, least significant first
RECURSIVE Carried(_, _, _, _)
Emit(a, b, i, t) == <<t % Limb>> \o Carried(a, b, i + 1, t \div Limb)
Carried(a, b, i, c) == IF i = 8 THEN <<c>> ELSE Emit(a, b, i, Col(a, b, i) + c)
\* the top 56 bits of the product w3 : w2 : w1 : w0 (words), sticky
Top(s, e, w3, w2, w1, w0, t) ==
    RoundPack(s, e + 28 + t, w3 * 2^(28 - t) + (w2 \div 2^t),
              Jam((w2 % 2^t) * 2^(28 - t) + (w1 \div 2^t), w1 % 2^t # 0 \/ w0 # 0))
Product(s, e, p) ==
    Top(s, e, p[8] * Limb + p[7], p[6] * Limb + p[5], p[4] * Limb + p[3],
        p[2] * Limb + p[1], IF p[8] * Limb + p[7] >= 2^21 THEN 22 ELSE 21)
MulFin(x, y) == Product(x.s * y.s, x.e + y.e, Carried(Limbs(x), Limbs(y), 1, 0))
RMul(x, y) ==
    IF IsNaN(x) \/ IsNaN(y) THEN NaN
    ELSE IF x.k = "inf" \/ y.k = "inf"
         THEN (IF IsZero(x) \/ IsZero(y) THEN NaN ELSE Inf(x.s * y.s))
    ELSE IF IsZero(x) \/ IsZero(y) THEN Zero(x.s * y.s)
    ELSE MulFin(x, y)

\* long division in limbs (least significant first): one digit q of
\* (r * Limb) / d for r < d, and the remainder.  MulSub is r * Limb - q * d
\* as four limbs and a top that is negative when q is too large
RECURSIVE MulSub(_, _, _, _, _)
Lower(r, d, q, i, x) == <<x % Limb>> \o MulSub(r, d, q, i + 1, x \div Limb)
MulSub(r, d, q, i, c) ==
    IF i = 5 THEN <<r[4] + c>>
    ELSE Lower(r, d, q, i, (IF i = 1 THEN 0 ELSE r[i - 1]) - q * d[i] + c)
RECURSIVE AddBack(_, _, _, _)
Raise(t, d, i, x) == <<x % Limb>> \o AddBack(t, d, i + 1, x \div Limb)
AddBack(t, d, i, c) == IF i = 5 THEN <<t[5] + c>> ELSE Raise(t, d, i, t[i] + d[i] + c)
RECURSIVE Fix(_, _, _)
Fix(q, t, d) ==
    IF t[5] < 0 THEN Fix(q - 1, AddBack(t, d, 1, 0), d)
    ELSE <<q, <<t[1], t[2], t[3], t[4]>>>>
Try(r, d, q) == Fix(q, MulSub(r, d, q, 1, 0), d)
Digit(r, d) == Try(r, d, Min((r[4] * Limb + r[3]) \div d[4], Limb - 1))
\* n digits of the quotient, most significant first, then the remainder
RECURSIVE Digits(_, _, _)
Shift(d, n, qr) == <<qr[1]>> \o Digits(qr[2], d, n - 1)
Digits(r, d, n) == IF n = 0 THEN <<r>> ELSE Shift(d, n, Digit(r, d))
\* the quotient h : l of 55 or 56 bits, sticky
Quotient(s, e, h, l, lost) ==
    IF h >= 2^27 THEN RoundPack(s, e - 55, h, Jam(l, lost))
    ELSE RoundPack(s, e - 56, h * 2 + (l \div 2^27), Jam((l % 2^27) * 2, lost))
Divided(s, e, q) ==
    Quotient(s, e, q[1] * Limb + q[2], q[3] * Limb + q[4], q[5] # <<0, 0, 0, 0>>)
\* four times the significand of x and eight times that of y, in limbs
Dividend(x) ==
    <<(x.lo % 2^12) * 4, (x.lo % 2^26) \div 2^12,
      (x.hi * 4 + (x.lo \div 2^26)) % Limb, (x.hi * 4 + (x.lo \div 2^26)) \div Limb>>
Divisor(y) == <<XL(y) % Limb, XL(y) \div Limb, XH(y) % Limb, XH(y) \div Limb>>
DivFin(x, y) == Divided(x.s * y.s, x.e - y.e, Digits(Dividend(x), Divisor(y), 4))
RDiv(x, y) ==
    IF IsNaN(x) \/ IsNaN(y) THEN NaN
    ELSE IF x.k = "inf" /\ y.k = "inf" THEN NaN
    ELSE IF x.k = "inf" THEN Inf(x.s * y.s)
    ELSE IF y.k = "inf" THEN Zero(x.s * y.s)
    ELSE IF IsZero(y) THEN (IF IsZero(x) THEN NaN ELSE Inf(x.s * y.s))
    ELSE IF IsZero(x) THEN Zero(x.s * y.s)
    ELSE DivFin(x, y)

\* sign of x - y for finite x, y
Cmp(x, y) ==
    IF IsZero(x) /\ IsZero(y) THEN 0
    ELSE IF IsZero(x) THEN -y.s
    ELSE IF IsZero(y) THEN x.s
    ELSE IF x.s # y.s THEN x.s
    ELSE IF MagLt(x, y) THEN -x.s
    ELSE IF MagLt(y, x) THEN x.s
    ELSE 0

\* x < y; any comparison with NaN is false
RLt(x, y) ==
    IF IsNaN(x) \/ IsNaN(y) THEN FALSE
    ELSE IF x.k = "inf" THEN x.s < 0 /\ ~(y.k = "inf" /\ y.s < 0)
    ELSE IF y.k = "inf" THEN y.s > 0
    ELSE Cmp(x, y) < 0
RGt(x, y) == RLt(y, x)
RLe(x, y) == ~IsNaN(x) /\ ~IsNaN(y) /\ ~RLt(y, x)
\* numeric equality (NaN equals nothing)
REq(x, y) == RLe(x, y) /\ RLe(y, x)

\* floor of a float 0 <= x < 2^28
Floor(x) ==
    IF IsZero(x) \/ x.e <= -53 THEN 0
    ELSE IF x.e <= -28 THEN x.hi \div 2^(-x.e - 28)
    ELSE x.hi * 2^(28 + x.e) + (x.lo \div 2^(-x.e))

\* a decimal literal a/b: the float nearest to it
Frac(a, b) == RDiv(Num(a), Num(b))
Eps == Frac(1, 1000000)

(***************************************************************************)
(* Sandy Square and thresholds.                                            *)
(***************************************************************************)
Z_min == Frac(30, 100)
Z_max == Frac(90, 100)
Sigma_min == Frac(15, 100)
Sigma_max == Frac(85, 100)
d_crit == Frac(5, 100)
Percentile == 90
\* the other float literals of the script
w_rad == Frac(5, 10)
w_ELM == Frac(4, 10)
w_DeltaW == Frac(3, 10)
Nought == Num(0)
One == Num(1)
Two == Num(2)
Half == Frac(1, 2)

(***************************************************************************)
(* Pasted CSV.  cols is the header (empty when the text area is blank),    *)
(* rows the parsed data rows.  A row carries the five values the script    *)
(* reads; the values of time and tau_E are never read.                     *)
(***************************************************************************)
ColumnNames == {"time", "H98y2", "P_rad", "P_input", "f_ELM", "DeltaW_ELM"}
\* variant: the check forgets the column the script never reads
required_without_time == {"H98y2", "P_rad", "P_input", "f_ELM", "DeltaW_ELM"}
required == {"time", "H98y2", "P_rad", "P_input", "f_ELM", "DeltaW_ELM"}
\* the columns the script indexes (df["..."]); a missing one raises KeyError
accessed == {"H98y2", "P_rad", "P_input", "f_ELM", "DeltaW_ELM"}
Rows == [H98y2 : 0..MaxH, P_rad : 0..MaxP, P_input : 0..MaxP,
         f_ELM : 0..MaxELM, DeltaW_ELM : 0..MaxELM]
Headers == {ColumnNames, ColumnNames \cup {"tau_E"}}
           \cup {ColumnNames \ {c} : c \in ColumnNames}
BlankText == [cols |-> {}, rows |-> <<>>]

\* a pandas Series / numpy array: every element is computed once, when the
\* array is built
Array(f) == IF f = <<>> THEN <<>> ELSE f

Column(df, c) == Array([i \in 1..Len(df.rows) |-> Num(df.rows[i][c])])

\* pandas Series.min() / Series.max(): NaN entries are skipped
NotNaN(x) == {i \in DOMAIN x : ~IsNaN(x[i])}
SeriesMin(x) ==
    IF NotNaN(x) = {} THEN NaN
    ELSE x[CHOOSE i \in NotNaN(x) : \A j \in NotNaN(x) : RLe(x[i], x[j])]
SeriesMax(x) ==
    IF NotNaN(x) = {} THEN NaN
    ELSE x[CHOOSE i \in NotNaN(x) : \A j \in NotNaN(x) : RLe(x[j], x[i])]

\* (x - lo) / den, elementwise
Scale(x, lo, den) == Array([i \in DOMAIN x |-> RDiv(RSub(x[i], lo), den)])
\* x.max() - x.min() + 1e-6
GuardedRange(x) == RAdd(RSub(SeriesMax(x), SeriesMin(x)), Eps)

\* variant: the minimum is not subtracted in the numerator
MinMaxNormalize_noshift(x) == Scale(x, Nought, GuardedRange(x))
\* variant: no epsilon in the denominator
MinMaxNormalize_noeps(x) == Scale(x, SeriesMin(x), RSub(SeriesMax(x), SeriesMin(x)))
\* (x - x.min()) / (x.max() - x.min() + 1e-6)
MinMaxNormalize(x) == Scale(x, SeriesMin(x), GuardedRange(x))

Z_proxy(df) == MinMaxNormalize(Column(df, "H98y2"))

\* variant: a zero P_input is silently replaced by a zero fraction
f_rad_guarded(df) ==
    Array([i \in 1..Len(df.rows) |->
              IF df.rows[i].P_input = 0 THEN Nought
              ELSE RDiv(Num(df.rows[i].P_rad), Num(df.rows[i].P_input))])
f_rad(df) ==
    Array([i \in 1..Len(df.rows) |->
              RDiv(Num(df.rows[i].P_rad), Num(df.rows[i].P_input))])

\* 0.5 * f_rad + 0.4 * f_ELM - 0.3 * DeltaW_ELM for one sample
Sigma_raw_at(fr, fe, dw) ==
    RSub(RAdd(RMul(w_rad, fr), RMul(w_ELM, fe)), RMul(w_DeltaW, dw))
Sigma_raw_of(fr, fe, dw) == Array([i \in DOMAIN fr |-> Sigma_raw_at(fr[i], fe[i], dw[i])])
Sigma_raw(df) == Sigma_raw_of(f_rad(df), Column(df, "f_ELM"), Column(df, "DeltaW_ELM"))

Sigma_proxy(df) == MinMaxNormalize(Sigma_raw(df))

\* variant: sign slip in (1 - Z)
GateProduct_plus(Z, Sigma) == RMul(RAdd(One, Z), Sigma)
GateProduct(Z, Sigma) == RMul(RSub(One, Z), Sigma)
G_series(Z, S) == Array([i \in DOMAIN Z |-> GateProduct(Z[i], S[i])])

\* the four rows of np.vstack([...]) for sample i
distances(Z, S, i) ==
    <<RSub(Z[i], Z_min), RSub(Z_max, Z[i]), RSub(S[i], Sigma_min), RSub(Sigma_max, S[i])>>

\* np.min / np.max of an array: NaN if any entry is NaN
np_min(x) ==
    IF \E i \in DOMAIN x : IsNaN(x[i]) THEN NaN
    ELSE x[CHOOSE i \in DOMAIN x : \A j \in DOMAIN x : RLe(x[i], x[j])]
np_max(x) ==
    IF \E i \in DOMAIN x : IsNaN(x[i]) THEN NaN
    ELSE x[CHOOSE i \in DOMAIN x : \A j \in DOMAIN x : RLe(x[j], x[i])]

\* variant: the farthest wall instead of the nearest
d_min_farthest(Z, S) == Array([i \in DOMAIN Z |-> np_max(distances(Z, S, i))])
d_min(Z, S) == Array([i \in DOMAIN Z |-> np_min(distances(Z, S, i))])

\* variant: a gradient that accepts a single element
GradientAcceptsOne(n) == n < 1
\* np.gradient raises ValueError on fewer than edge_order + 1 = 2 elements
GradientRaises(n) == n < 2
\* unit spacing: one-sided differences (over 1.0) at the two ends, central
\* differences over 2.0 inside
Gradient(f, n) ==
    Array([i \in 1..n |->
              IF n < 2 THEN Nought
              ELSE IF i = 1 THEN RDiv(RSub(f[2], f[1]), One)
              ELSE IF i = n THEN RDiv(RSub(f[n], f[n - 1]), One)
              ELSE RDiv(RSub(f[i + 1], f[i - 1]), Two)])
np_gradient(f) == Gradient(f, Len(f))

\* the k-th smallest (k = 1..n) entry of a NaN-free array
Sorted(x, k) ==
    x[CHOOSE i \in DOMAIN x :
        /\ Cardinality({j \in DOMAIN x : RLt(x[j], x[i])}) < k
        /\ Cardinality({j \in DOMAIN x : RLe(x[j], x[i])}) >= k]

\* numpy _lerp: a + (b - a) * t, overwritten by b - (b - a) * (1 - t) where
\* t >= 0.5
Lerp(a, b, t) ==
    IF RLe(Half, t) THEN RSub(b, RMul(RSub(b, a), RSub(One, t)))
    ELSE RAdd(a, RMul(RSub(b, a), t))
\* the entries at floor(v) and floor(v) + 1 (0-based) of the sorted array,
\* interpolated at gamma = v - floor(v)
Between(x, v, previous) ==
    IF previous >= Len(x) - 1 THEN Sorted(x, Len(x))
    ELSE Lerp(Sorted(x, previous + 1), Sorted(x, previous + 2), RSub(v, Num(previous)))
Interpolate(x, v) == Between(x, v, Floor(v))
\* np.percentile(x, q), method "linear": NaN if any entry is NaN, else the
\* value at the virtual index (n - 1) * (q / 100) of the sorted array
np_percentile(x, q) ==
    IF \E i \in DOMAIN x : IsNaN(x[i]) THEN NaN
    ELSE Interpolate(x, RMul(Num(Len(x) - 1), Frac(q, 100)))

proximity_flag(dm) == Array([i \in DOMAIN dm |-> RLt(dm[i], d_crit)])
pressure_flag(dG, crit) == Array([i \in DOMAIN dG |-> RGt(dG[i], crit)])
phase0_flag(prox, pres) == Array([i \in DOMAIN prox |-> prox[i] \/ pres[i]])
Count(flags) == Cardinality({i \in DOMAIN flags : flags[i]})

(***************************************************************************)
(* The page.  Sliders are in hundredths (step 0.01); G_manual is the       *)
(* number shown by the ".4f" metric, in ten-thousandths: the float product *)
(* is within 1e-16 of a multiple of 0.0001, so the four printed decimals   *)
(* are those of the exact product.                                         *)
(***************************************************************************)
\* variant: Z instead of 1 - Z
G_manual_noinvert(Z, Sigma) == Z * Sigma
G_manual(Z, Sigma) == (SliderMax - Z) * Sigma

\* what the batch section shows when it shows no report
NoReport(outcome) ==
    [outcome |-> outcome, Z_proxy |-> <<>>, Sigma_proxy |-> <<>>, G_series |-> <<>>,
     d_min |-> <<>>, dG_dt |-> <<>>, dG_crit |-> NaN,
     proximity_flag |-> <<>>, pressure_flag |-> <<>>, phase0_flag |-> <<>>,
     status |-> "none", flagged |-> 0, min_distance |-> NaN, max_slope |-> NaN]

\* lines 199-212: status panel and metrics
Rendered(Z, S, G, dm, dG, crit, prox, pres, p0) ==
    [outcome |-> "report", Z_proxy |-> Z, Sigma_proxy |-> S, G_series |-> G,
     d_min |-> dm, dG_dt |-> dG, dG_crit |-> crit,
     proximity_flag |-> prox, pressure_flag |-> pres, phase0_flag |-> p0,
     status |-> IF Count(p0) > 0 THEN "warning" ELSE "success",
     flagged |-> Count(p0),
     min_distance |-> np_min(dm), max_slope |-> np_max(dG)]
\* lines 166-169
Flagged(Z, S, G, dm, dG, crit, prox, pres) ==
    Rendered(Z, S, G, dm, dG, crit, prox, pres, phase0_flag(prox, pres))
\* lines 162-167
Thresholded(Z, S, G, dm, dG, crit) ==
    Flagged(Z, S, G, dm, dG, crit, proximity_flag(dm), pressure_flag(dG, crit))
\* lines 159-163
Sloped(Z, S, G, dm, dG) == Thresholded(Z, S, G, dm, dG, np_percentile(dG, Percentile))
\* lines 144-159
Gated(Z, S, G) == Sloped(Z, S, G, d_min(Z, S), np_gradient(G))
\* lines 134-144
Proxied(Z, S) == Gated(Z, S, G_series(Z, S))
Report(df) == Proxied(Z_proxy(df), Sigma_proxy(df))

\* lines 125-215: the batch section of one script run
Batch(csv, manual) ==
    IF csv.cols = {} \/ manual THEN NoReport("idle")
    ELSE IF ~(required \subseteq csv.cols) THEN NoReport("missing_columns")
    ELSE IF ~(accessed \subseteq csv.cols) THEN NoReport("exception")
    ELSE IF GradientRaises(Len(csv.rows)) THEN NoReport("exception")
    ELSE Report(csv)

(***************************************************************************)
(* State.  The four widgets (lines 32-45 and 111-120) and what the last    *)
(* script run rendered: G_shown is the Gate Product metric (line 63),      *)
(* batch the outcome of the batch section (lines 125-215) with the series  *)
(* and values behind it.                                                   *)
(***************************************************************************)
VARIABLES Z_manual, Sigma_manual, use_manual, csv_text, G_shown, batch

vars == <<Z_manual, Sigma_manual, use_manual, csv_text, G_shown, batch>>

\* variant: a rerun that keeps the slope threshold of the report it replaces
KeepThreshold(old, new) ==
    IF old.outcome = "report" /\ new.outcome = "report"
    THEN [new EXCEPT !.dG_crit = old.dG_crit,
                     !.pressure_flag = pressure_flag(new.dG_dt, old.dG_crit)]
    ELSE new
Rerun_stale ==
    /\ G_shown' = G_manual(Z_manual', Sigma_manual')
    /\ batch' = KeepThreshold(batch, Batch(csv_text', use_manual'))
\* one run of the script on the widgets' new values
Rerun ==
    /\ G_shown' = G_manual(Z_manual', Sigma_manual')
    /\ batch' = Batch(csv_text', use_manual')

Init ==
    /\ Z_manual = Z_default
    /\ Sigma_manual = Sigma_default
    /\ use_manual = FALSE
    /\ csv_text = BlankText
    /\ G_shown = G_manual(Z_default, Sigma_default)
    /\ batch = Batch(BlankText, FALSE)

SetZ ==
    /\ \E z \in 0..SliderMax : z # Z_manual /\ Z_manual' = z
    /\ UNCHANGED <<Sigma_manual, use_manual, csv_text>>
    /\ Rerun

SetSigma ==
    /\ \E s \in 0..SliderMax : s # Sigma_manual /\ Sigma_manual' = s
    /\ UNCHANGED <<Z_manual, use_manual, csv_text>>
    /\ Rerun

ToggleManual ==
    /\ use_manual' = ~use_manual
    /\ UNCHANGED <<Z_manual, Sigma_manual, csv_text>>
    /\ Rerun

\* the user types the header line into the blank text area
TypeHeader ==
    /\ csv_text.cols = {}
    /\ \E h \in Headers : csv_text' = [cols |-> h, rows |-> <<>>]
    /\ UNCHANGED <<Z_manual, Sigma_manual, use_manual>>
    /\ Rerun

\* the user adds one data row under the header; batches grow to MaxLen rows
\* under the six documented columns, to MaxHdrRows rows under any other header
AppendRow ==
    /\ csv_text.cols # {}
    /\ Len(csv_text.rows) < (IF csv_text.cols = ColumnNames THEN MaxLen ELSE MaxHdrRows)
    /\ \E r \in Rows : csv_text' = [csv_text EXCEPT !.rows = Append(@, r)]
    /\ UNCHANGED <<Z_manual, Sigma_manual, use_manual>>
    /\ Rerun

ClearText ==
    /\ csv_text.cols # {}
    /\ csv_text' = BlankText
    /\ UNCHANGED <<Z_manual, Sigma_manual, use_manual>>
    /\ Rerun

Next == TypeHeader \/ AppendRow \/ ClearText \/ ToggleManual
Spec == Init /\ [][Next]_vars

NextManual == SetZ \/ SetSigma \/ ToggleManual
SpecManual == Init /\ [][NextManual]_vars

(***************************************************************************)
(* PhaseClassifier (spec section 4.3), on slider values in hundredths.     *)
(***************************************************************************)
PhaseLabels == {"DeadZone", "DangerZone", "SafeZone"}
PhaseClassifier(Z, Sigma) ==
    IF Z < 30 THEN "DeadZone"
    ELSE IF Z > 70 /\ Sigma < 15 THEN "DangerZone"
    ELSE "SafeZone"

(***************************************************************************)
(* Vocabulary of the properties.                                           *)
(***************************************************************************)
NRows == Len(csv_text.rows)
Samples == 1..NRows
\* the batch section runs on the pasted text
Processed == csv_text.cols # {} /\ ~use_manual
Complete == ColumnNames \subseteq csv_text.cols
Reported == batch.outcome = "report"
MinusZmin == Frac(-30, 100)
InUnit(x) == RLe(Nought, x) /\ RLe(x, One)
HasRange(x) == RGt(SeriesMax(x), SeriesMin(x))
ZeroPInput(i) == csv_text.rows[i].P_input = 0
OutsideSquare(i) ==
    \/ RLt(batch.Z_proxy[i], Z_min)
    \/ RGt(batch.Z_proxy[i], Z_max)
    \/ RLt(batch.Sigma_proxy[i], Sigma_min)
    \/ RGt(batch.Sigma_proxy[i], Sigma_max)

(***************************************************************************)
(* C1: a processed input that lacks one of the six required columns ends   *)
(* in an error outcome, and nothing of the report (proxies, Gate Product,  *)
(* flags, status, metrics) is produced.                                    *)
(***************************************************************************)
C1_MissingColumnNoReport ==
    (Processed /\ ~Complete) =>
        /\ batch.outcome \in {"missing_columns", "exception"}
        /\ batch = NoReport(batch.outcome)

C1_Witness ==
    /\ Processed /\ NRows = 2
    /\ csv_text.cols = ColumnNames \ {"time"}
    /\ batch = NoReport("missing_columns")

(***************************************************************************)
(* C2: in every report, a sample outside the Sandy Square on either axis   *)
(* has distance_to_wall < 0, and every sample with distance_to_wall < 0 is *)
(* Phase-0 flagged.                                                        *)
(***************************************************************************)
C2_OutsideIsFlagged ==
    Reported =>
        \A i \in DOMAIN batch.d_min :
            /\ OutsideSquare(i) => RLt(batch.d_min[i], Nought)
            /\ RLt(batch.d_min[i], Nought) => batch.phase0_flag[i]

(***************************************************************************)
(* C3, as claimed: in every report, if H98y2 (resp. Sigma_raw) has         *)
(* max > min then every Z[i] (resp. Sigma[i]) is in [0,1].                 *)
(***************************************************************************)
C3_Original ==
    Reported =>
        /\ HasRange(Column(csv_text, "H98y2")) =>
               \A i \in Samples : InUnit(batch.Z_proxy[i])
        /\ HasRange(Sigma_raw(csv_text)) =>
               \A i \in Samples : InUnit(batch.Sigma_proxy[i])

(***************************************************************************)
(* C3, amended: in every report, if H98y2 has max > min then every Z[i] is  *)
(* in [0,1]; if Sigma_raw has max > min and all its values are finite (no  *)
(* sample has P_input = 0) then every Sigma[i] is in [0,1].                *)
(***************************************************************************)
C3_FiniteNormalizedInUnit ==
    Reported =>
        /\ HasRange(Column(csv_text, "H98y2")) =>
               \A i \in Samples : InUnit(batch.Z_proxy[i])
        /\ (HasRange(Sigma_raw(csv_text))
              /\ \A i \in Samples : IsFinite(Sigma_raw(csv_text)[i])) =>
               \A i \in Samples : InUnit(batch.Sigma_proxy[i])

C3_Witness ==
    /\ Reported /\ NRows = 3
    /\ HasRange(Column(csv_text, "H98y2"))
    /\ HasRange(Sigma_raw(csv_text))
    /\ \A i \in Samples : ~ZeroPInput(i)
    /\ \E i \in Samples : RLt(Nought, batch.Z_proxy[i]) /\ RLt(batch.Z_proxy[i], Z_max)
    /\ \E i \in Samples :
           RLt(Nought, batch.Sigma_proxy[i]) /\ RLt(batch.Sigma_proxy[i], Sigma_max)

(***************************************************************************)
(* C4, as claimed: in every report every G[i] is in [0,1], and G[i] = 0    *)
(* whenever Z[i] = 1 or Sigma[i] = 0.                                      *)
(***************************************************************************)
C4_Original ==
    Reported =>
        \A i \in Samples :
            /\ InUnit(batch.G_series[i])
            /\ (REq(batch.Z_proxy[i], One) \/ REq(batch.Sigma_proxy[i], Nought))
                   => REq(batch.G_series[i], Nought)

(***************************************************************************)
(* C4, amended: in every report, for every sample whose Z[i] and Sigma[i]   *)
(* are both finite, G[i] is in [0,1], and G[i] = 0 whenever Z[i] = 1 or    *)
(* Sigma[i] = 0 (a sample with P_input = 0 has Sigma = NaN and G = NaN).   *)
(***************************************************************************)
C4_FiniteGateInUnit ==
    Reported =>
        \A i \in Samples :
            (IsFinite(batch.Z_proxy[i]) /\ IsFinite(batch.Sigma_proxy[i])) =>
                /\ InUnit(batch.G_series[i])
                /\ (REq(batch.Z_proxy[i], One) \/ REq(batch.Sigma_proxy[i], Nought))
                       => REq(batch.G_series[i], Nought)

C4_Witness ==
    /\ Reported /\ NRows = 3
    /\ \E i \in Samples : REq(batch.Sigma_proxy[i], Nought) /\ REq(batch.G_series[i], Nought)
    /\ \E i \in Samples : RLt(Nought, batch.G_series[i]) /\ RLt(batch.G_series[i], One)
    /\ \E i \in Samples : IsNaN(batch.G_series[i])

\* dGdt recomputed from the text now in the text area
CurrentSlopes ==
    np_gradient(G_series(Z_proxy(csv_text), Sigma_proxy(csv_text)))

(***************************************************************************)
(* C5: in every report, dG_crit is the 90th percentile of the dGdt of the  *)
(* batch now in the text area (never a threshold left over from an earlier *)
(* batch), and pressure_flag[i] holds exactly when dGdt[i] > dG_crit.      *)
(***************************************************************************)
C5_ThresholdOfCurrentBatch ==
    Reported =>
        /\ batch.dG_dt = CurrentSlopes
        /\ batch.dG_crit = np_percentile(CurrentSlopes, 90)
        /\ \A i \in Samples :
               batch.pressure_flag[i] <=> RGt(batch.dG_dt[i], batch.dG_crit)
        \* rank of a 90th percentile: it lies between the order statistics at
        \* floor and ceiling of 0.9 * (n - 1)
        /\ IsFinite(batch.dG_crit) =>
               LET lo == (90 * (NRows - 1)) \div 100
               IN  /\ Cardinality({i \in Samples : RLt(batch.dG_dt[i], batch.dG_crit)})
                          <= lo + 1
                   /\ Cardinality({i \in Samples : RGt(batch.dG_dt[i], batch.dG_crit)})
                          <= NRows - 1 - lo

C5_Witness ==
    /\ Reported /\ NRows = 3
    /\ IsFinite(batch.dG_crit)
    /\ \E i \in Samples : batch.pressure_flag[i] /\ ~batch.proximity_flag[i]
    /\ \E i \in Samples : RLt(batch.dG_dt[i], batch.dG_crit)

\* the label of the current slider pair, per zone
LabelRespectsPrecedence ==
    LET l == PhaseClassifier(Z_manual, Sigma_manual)
    IN  /\ l \in PhaseLabels
        /\ l = "DeadZone" <=> Z_manual < 30
        /\ l = "DangerZone" <=> (Z_manual >= 30 /\ Z_manual > 70 /\ Sigma_manual < 15)
        /\ (Z_manual = 20 /\ Sigma_manual = 5) => l = "DeadZone"
        /\ (Z_manual = 80 /\ Sigma_manual = 10) => l = "DangerZone"
        /\ (Z_manual = 85 /\ Sigma_manual = 30) => l = "SafeZone"

(***************************************************************************)
(* C6, as claimed: for every slider pair exactly one label of DeadZone,    *)
(* DangerZone, SafeZone is returned, in the precedence order Z < 0.3, then *)
(* Z > 0.7 and Sigma < 0.15, then SafeZone; (0.2, 0.05) is DeadZone,       *)
(* (0.8, 0.1) DangerZone, and (0.85, 0.30) SafeZone with G = 0.1050.       *)
(***************************************************************************)
C6_Original ==
    /\ LabelRespectsPrecedence
    /\ (Z_manual = 85 /\ Sigma_manual = 30) => G_shown = 1050

(***************************************************************************)
(* C6, amended: for every slider pair exactly one label of DeadZone,       *)
(* DangerZone, SafeZone is returned, in the precedence order Z < 0.3, then *)
(* Z > 0.7 and Sigma < 0.15, then SafeZone; (0.2, 0.05) is DeadZone,       *)
(* (0.8, 0.1) DangerZone, and (0.85, 0.30) SafeZone with G = 0.0450.       *)
(***************************************************************************)
C6_ManualLabelAndGate ==
    /\ LabelRespectsPrecedence
    /\ (Z_manual = 85 /\ Sigma_manual = 30) => G_shown = 450

C6_Witness ==
    /\ Z_manual = 20 /\ Sigma_manual = 5
    /\ PhaseClassifier(Z_manual, Sigma_manual) = "DeadZone"
    /\ G_shown = 400

\* at least one row, all with the same H98y2
ConstantH ==
    /\ NRows >= 1
    /\ \A i, j \in Samples : csv_text.rows[i].H98y2 = csv_text.rows[j].H98y2

(***************************************************************************)
(* C7, as claimed: a processed batch with all columns whose H98y2 column   *)
(* is constant gets Z[i] = 0 for every sample and a Phase-0 result.        *)
(***************************************************************************)
C7_Original ==
    (Processed /\ Complete /\ ConstantH) =>
        /\ Reported
        /\ batch.status \in {"warning", "success"}
        /\ \A i \in Samples : REq(batch.Z_proxy[i], Nought)

(***************************************************************************)
(* C7, amended: a processed batch with all columns and at least 2 rows     *)
(* whose H98y2 column is constant gets Z[i] = 0 for every sample and a     *)
(* Phase-0 result (a 1-row batch ends in the error outcome of C10).        *)
(***************************************************************************)
C7_ConstantColumnGivesZero ==
    (Processed /\ Complete /\ ConstantH /\ NRows >= 2) =>
        /\ Reported
        /\ batch.status \in {"warning", "success"}
        /\ \A i \in Samples : REq(batch.Z_proxy[i], Nought)

C7_Witness ==
    /\ Processed /\ Complete /\ NRows = 3
    /\ \A i \in Samples : csv_text.rows[i].H98y2 = 1
    /\ Reported
    /\ \A i \in Samples : REq(batch.Z_proxy[i], Nought)

(***************************************************************************)
(* C8: a batch with all columns, at least 2 rows and some P_input[i] = 0   *)
(* does not end in an error: f_rad[i], Sigma_raw[i], Sigma[i] and G[i] are *)
(* non-finite, some dGdt is non-finite, and the status and the metrics are *)
(* produced from these series.                                             *)
(***************************************************************************)
C8_ZeroPInputPropagates ==
    (Processed /\ Complete /\ NRows >= 2 /\ \E i \in Samples : ZeroPInput(i)) =>
        /\ Reported
        /\ batch.status = (IF \E i \in Samples : batch.phase0_flag[i]
                           THEN "warning" ELSE "success")
        /\ \A i \in Samples : ZeroPInput(i) =>
               /\ ~IsFinite(f_rad(csv_text)[i])
               /\ ~IsFinite(Sigma_raw(csv_text)[i])
               /\ ~IsFinite(batch.Sigma_proxy[i])
               /\ ~IsFinite(batch.G_series[i])
        /\ \E j \in Samples : ~IsFinite(batch.dG_dt[j])
        /\ batch.min_distance = np_min(batch.d_min)
        /\ batch.max_slope = np_max(batch.dG_dt)
        /\ ~IsFinite(batch.max_slope)

C8_Witness ==
    /\ Reported /\ NRows = 3
    /\ ZeroPInput(2) /\ ~ZeroPInput(1) /\ ~ZeroPInput(3)
    /\ IsNaN(batch.G_series[2])
    /\ batch.status = "warning"

(***************************************************************************)
(* C9: a batch with all columns, at least 2 rows and no P_input = 0 has at *)
(* least one Phase-0 flagged sample: a sample attaining min(H98y2) has     *)
(* Z = 0 and distance_to_wall <= -0.30, so flagged_count >= 1, the minimum *)
(* distance is <= -0.30, and the status is never "No Phase-0 detected".    *)
(***************************************************************************)
C9_FiniteBatchAlwaysFlagged ==
    (Processed /\ Complete /\ NRows >= 2 /\ \A i \in Samples : ~ZeroPInput(i)) =>
        /\ Reported
        /\ \A i \in Samples :
               (\A j \in Samples : csv_text.rows[i].H98y2 <= csv_text.rows[j].H98y2) =>
                   /\ REq(batch.Z_proxy[i], Nought)
                   /\ RLe(batch.d_min[i], MinusZmin)
                   /\ batch.phase0_flag[i]
        /\ batch.flagged >= 1
        /\ RLe(batch.min_distance, MinusZmin)
        /\ batch.status = "warning"

C9_Witness ==
    /\ Reported /\ NRows = 3
    /\ \A i \in Samples : ~ZeroPInput(i)
    /\ batch.flagged = 2
    /\ \E i \in Samples : ~batch.phase0_flag[i]
    /\ REq(batch.min_distance, MinusZmin)

(***************************************************************************)
(* C10: a batch with all columns but fewer than 2 data rows ends in the    *)
(* error outcome: no flags, no status, no metrics, no substituted dGdt.    *)
(***************************************************************************)
C10_ShortBatchIsError ==
    (Processed /\ Complete /\ NRows < 2) => batch = NoReport("exception")

C10_Witness ==
    /\ Processed /\ Complete /\ NRows = 1
    /\ batch = NoReport("exception")

====
